---- MODULE Spec2Model ----
(***************************************************************************)
(* light-snowflake-connector: the partitioned retrieval engine of          *)
(* src/src/statement.rs (Statement::query, QueryResponse) together with    *)
(* the wire envelope of src/src/errors.rs and the Partition views of       *)
(* src/src/partition.rs (Spec); the cell decoder and the JSON projection   *)
(* of src/src/cells.rs (CellSpec); the Statement builder with the bindings *)
(* of src/src/bindings.rs (StatementSpec).                                 *)
(*                                                                         *)
(* Futures are modelled at poll granularity: one action is one poll of a   *)
(* future or stream by its consumer, and the arrival of an HTTP response   *)
(* is an action of the environment.                                        *)
(***************************************************************************)
EXTENDS Integers, Sequences, FiniteSets, TLC

VARIABLES
    pc,        \* "prepared" | "ready" | "changed" | "failed" | "consumed": Statement and QueryResponse
    server,    \* the result set held by the warehouse: [count, layout]
    wire,      \* the HTTP outcome Statement::query or manipulate received
    queryRet,  \* what Statement::query or manipulate returned
    qr,        \* the QueryResponse (hydrate), or NoQR
    call,      \* a direct call of QueryResponse::partition(index) in progress
    stream,    \* a partitions()/rows()/json_*()/concat_partitions() consumption in progress
    lastRet,   \* the return value of the operation started last, once it returned
    results,   \* per derived stream, the items of its last successful full drain
    drains,    \* number of full drains that completed successfully
    drainReqs, \* number of GET requests those drains issued
    overflow_checks,  \* the build: arithmetic overflow panics (debug) or wraps (release)
    rawValue,  \* a wire value under decoding: [tag, value]
    decoded,   \* what RawCell::to_cell made of rawValue
    projected, \* what serde_json::Value::from made of decoded
    view,      \* a Partition over a page as any response may carry it
    matrix,    \* what Partition::cells made of view
    stmt,      \* the WireStatement of a Statement under construction
    calls      \* the builder calls made on the Statement, in order

engineVars == <<pc, server, wire, queryRet, qr, call, stream, lastRet, results, drains, drainReqs>>
cellVars == <<rawValue, decoded, projected, view, matrix>>
stmtVars == <<stmt, calls>>

unitVars == <<overflow_checks, cellVars, stmtVars>>

vars == <<engineVars, unitVars>>

----------------------------------------------------------------------------
(* Bounds of the model *)

MaxParts == 3      \* partition counts 0..MaxParts
NumLayouts == 3    \* ways the rows are spread over the pages
MaxDrains == 2     \* successful full drains that are counted

----------------------------------------------------------------------------
(* Option and Result *)

None == [some |-> FALSE]
Some(v) == [some |-> TRUE, val |-> v]

Ok(v) == [ok |-> TRUE, val |-> v]
Err(e) == [ok |-> FALSE, err |-> e]

(* SnowflakeError variants that these operations can produce *)
ServerError(code, message) == [kind |-> "ServerError", code |-> code, message |-> message]
RequestError == [kind |-> "Request"]
TokenError == [kind |-> "Token"]
MultiplePartitions == [kind |-> "MultiplePartitions"]

(* SnowflakeWireResult<T>: the untagged envelope *)
WireOk(t) == [tag |-> "Ok", payload |-> t]
WireError(code, message) == [tag |-> "Error", code |-> code, message |-> message]

(* A mutant of into_result that mixes up the two fields of the error variant *)
into_result_swapped(w) ==
    IF w.tag = "Error" THEN Err(ServerError(w.message, w.code)) ELSE Ok(w.payload)

(* SnowflakeWireResult::into_result *)
into_result(w) ==
    IF w.tag = "Error" THEN Err(ServerError(w.code, w.message)) ELSE Ok(w.payload)

----------------------------------------------------------------------------
(* Wire strings are sequences of characters *)

Str1(a) == <<a>>

DigitChars == <<"0", "1", "2", "3", "4", "5", "6", "7", "8", "9">>

RECURSIVE Decimal(_)
(* decimal rendering of a natural number, as the warehouse writes it *)
Decimal(n) == IF n < 10 THEN <<DigitChars[n + 1]>>
              ELSE Decimal(n \div 10) \o <<DigitChars[(n % 10) + 1]>>

----------------------------------------------------------------------------
(* Cell decoder: src/src/cells.rs *)

IsDigit(c) == \E i \in 1..10 : DigitChars[i] = c
DigitVal(c) == (CHOOSE i \in 1..10 : DigitChars[i] = c) - 1

AllDigits(s) == Len(s) > 0 /\ \A i \in 1..Len(s) : IsDigit(s[i])

RECURSIVE NatVal(_)
(* the value of a short digit string *)
NatVal(s) == IF Len(s) = 0 THEN 0
             ELSE 10 * NatVal(SubSeq(s, 1, Len(s) - 1)) + DigitVal(s[Len(s)])

EndsWith(s, pat) ==
    Len(s) >= Len(pat) /\ SubSeq(s, Len(s) - Len(pat) + 1, Len(s)) = pat

RECURSIVE trim_end_matches(_, _)
(* str::trim_end_matches: removes the suffix as often as it repeats *)
trim_end_matches(s, pat) ==
    IF Len(pat) > 0 /\ EndsWith(s, pat)
    THEN trim_end_matches(SubSeq(s, 1, Len(s) - Len(pat)), pat)
    ELSE s

(* Integers wider than 32 bits are kept as sign and magnitude, the
   magnitude a decimal digit string without leading zeros *)
Front(s) == IF Len(s) = 0 THEN s ELSE SubSeq(s, 1, Len(s) - 1)

RECURSIVE StripZeros(_)
StripZeros(s) == IF Len(s) > 1 /\ s[1] = "0" THEN StripZeros(Tail(s)) ELSE s

RECURSIVE StripTrailingZeros(_)
StripTrailingZeros(s) ==
    IF Len(s) > 0 /\ s[Len(s)] = "0" THEN StripTrailingZeros(Front(s)) ELSE s

RECURSIVE AddNat(_, _, _)
AddNat(a, b, carry) ==
    IF Len(a) = 0 /\ Len(b) = 0
    THEN IF carry = 0 THEN <<>> ELSE <<DigitChars[carry + 1]>>
    ELSE LET da == IF Len(a) = 0 THEN 0 ELSE DigitVal(a[Len(a)])
             db == IF Len(b) = 0 THEN 0 ELSE DigitVal(b[Len(b)])
             sum == da + db + carry
         IN AddNat(Front(a), Front(b), sum \div 10) \o <<DigitChars[(sum % 10) + 1]>>

(* 1 << 53, 1 << 63 and 1 << 127 *)
TwoPow53 == <<"9", "0", "0", "7", "1", "9", "9", "2", "5", "4", "7", "4", "0",
            "9", "9", "2">>
TwoPow63 == <<"9", "2", "2", "3", "3", "7", "2", "0", "3", "6", "8", "5", "4",
            "7", "7", "5", "8", "0", "8">>
TwoPow127 == <<"1", "7", "0", "1", "4", "1", "1", "8", "3", "4", "6", "0", "4",
             "6", "9", "2", "3", "1", "7", "3", "1", "6", "8", "7", "3", "0",
             "3", "7", "1", "5", "8", "8", "4", "1", "0", "5", "7", "2", "8">>

(* a < b on magnitudes *)
NatLess(a, b) ==
    \/ Len(a) < Len(b)
    \/ /\ Len(a) = Len(b)
       /\ \E i \in 1..Len(a) :
            /\ DigitVal(a[i]) < DigitVal(b[i])
            /\ \A j \in 1..(i - 1) : a[j] = b[j]

Num(neg, mag) == [neg |-> neg /\ mag # <<"0">>, mag |-> mag]
Zero == Num(FALSE, <<"0">>)

(* a < b on signed integers *)
NumLess(a, b) ==
    IF a.neg # b.neg THEN a.neg
    ELSE IF a.neg THEN NatLess(b.mag, a.mag) ELSE NatLess(a.mag, b.mag)

I128Min == Num(TRUE, TwoPow127)     \* i128::MIN = -2^127

(* str::parse for a signed integer type whose least value is -limit: an
   optional sign and at least one digit; a value out of range is an error *)
ParseSigned(s, limit) ==
    LET signed == Len(s) > 0 /\ s[1] \in {"+", "-"}
        body == IF signed THEN Tail(s) ELSE s
        n == Num(signed /\ s[1] = "-", StripZeros(body))
    IN IF AllDigits(body) /\ (NatLess(n.mag, limit) \/ (n.neg /\ n.mag = limit))
       THEN Ok(n)
       ELSE Err("ParseIntError")

(* str::parse::<i128> *)
ParseInt(s) == ParseSigned(s, TwoPow127)

(* str::parse::<i64> *)
ParseI64(s) == ParseSigned(s, TwoPow63)

(* str::parse::<f64> on decimal literals without exponent: an optional sign,
   digits, an optional point and digits, with a digit on one side at least.
   The value is kept as the decimal the literal denotes.  The literals whose
   seconds and nanoseconds are taken apart below have few digits, and their
   f64 yields the same whole seconds and the same nine digits of fraction. *)
ParseFloat(s) ==
    LET signed == Len(s) > 0 /\ s[1] \in {"+", "-"}
        body == IF signed THEN Tail(s) ELSE s
        dots == {i \in 1..Len(body) : body[i] = "."}
        point == IF dots = {} THEN Len(body) + 1 ELSE CHOOSE i \in dots : TRUE
        int == SubSeq(body, 1, point - 1)
        frac == SubSeq(body, point + 1, Len(body))
        wellFormed == /\ Cardinality(dots) <= 1
                      /\ Len(int) + Len(frac) > 0
                      /\ \A i \in 1..Len(int) : IsDigit(int[i])
                      /\ \A i \in 1..Len(frac) : IsDigit(frac[i])
    IN IF wellFormed
       THEN Ok([neg |-> signed /\ s[1] = "-",
                int |-> StripZeros(IF Len(int) = 0 THEN <<"0">> ELSE int),
                frac |-> StripTrailingZeros(frac)])
       ELSE Err("ParseFloatError")

Null == [t |-> "Null"]
Panic == [t |-> "Panic"]    \* an unwrap() of a failed parse or None: the decode call aborts

RawCell == {"fixed", "real", "text", "binary", "boolean", "date", "time",
            "timestamp_ltz", "timestamp_ntz", "timestamp_tz"}

Float(f) == [t |-> "Float", v |-> f]

(* hex::decode: two hexadecimal digits of either case per byte *)
HexChars == <<"0", "1", "2", "3", "4", "5", "6", "7", "8", "9",
              "a", "b", "c", "d", "e", "f">>
UpperHexChars == <<"0", "1", "2", "3", "4", "5", "6", "7", "8", "9",
                   "A", "B", "C", "D", "E", "F">>
IsHex(c) == \E i \in 1..16 : HexChars[i] = c \/ UpperHexChars[i] = c
HexVal(c) == (CHOOSE i \in 1..16 : HexChars[i] = c \/ UpperHexChars[i] = c) - 1
hex_decode(s) ==
    IF Len(s) % 2 = 0 /\ \A i \in 1..Len(s) : IsHex(s[i])
    THEN Ok([i \in 1..(Len(s) \div 2) |-> 16 * HexVal(s[2 * i - 1]) + HexVal(s[2 * i])])
    ELSE Err("FromHexError")

(* hex::encode: lower case *)
hex_encode(bytes) ==
    [i \in 1..(2 * Len(bytes)) |->
        IF i % 2 = 1 THEN HexChars[(bytes[(i + 1) \div 2] \div 16) + 1]
                     ELSE HexChars[(bytes[i \div 2] % 16) + 1]]

(* f64::fract: an f64 of 2^53 or more has no fractional digits *)
fract(f) == IF NatLess(f.int, TwoPow53) THEN f.frac ELSE <<>>

(* f.fract() * 1e9, truncated: the first nine fractional digits *)
fract_nanos(f) ==
    LET d == fract(f) IN NatVal([i \in 1..9 |-> IF i <= Len(d) THEN d[i] ELSE "0"])

U32Max == <<"4", "2", "9", "4", "9", "6", "7", "2", "9", "5">>
I64Max == <<"9", "2", "2", "3", "3", "7", "2", "0", "3", "6",
            "8", "5", "4", "7", "7", "5", "8", "0", "7">>

(* `f as u32`: truncates towards zero and saturates, a negative value at 0 *)
as_u32(f) ==
    IF f.neg THEN Zero
    ELSE IF NatLess(U32Max, f.int) THEN Num(FALSE, U32Max) ELSE Num(FALSE, f.int)

(* `(f.fract() * 1e9) as u32` *)
fract_nanos_as_u32(f) == IF f.neg THEN 0 ELSE fract_nanos(f)

(* `f as i64`: truncates towards zero and saturates *)
as_i64(f) ==
    IF NatLess(f.int, TwoPow63) THEN Num(f.neg, f.int)
    ELSE IF f.neg THEN Num(TRUE, TwoPow63) ELSE Num(FALSE, I64Max)

(* NaiveTime::from_num_seconds_from_midnight_opt *)
from_num_seconds_from_midnight_opt(secs, nano) ==
    IF ~NatLess(secs.mag, <<"8", "6", "4", "0", "0">>) \/ nano >= 2000000000
    THEN None
    ELSE Some([t |-> "Time", secs |-> NatVal(secs.mag), nano |-> nano])

(* chrono's dates span about 262000 years on either side of year 0: every
   count of seconds of at most 12 digits and every count of days of at most 7
   digits is inside, every count of 14 or 9 digits or more is outside *)
InSecondsRange(n) == Len(n.mag) <= 12
InDaysRange(n) == Len(n.mag) <= 7

(* NaiveDateTime::from_timestamp_opt *)
from_timestamp_opt(secs, nsecs) ==
    IF ~InSecondsRange(secs) \/ nsecs >= 2000000000
    THEN None
    ELSE Some([t |-> "TimestampNtz", secs |-> secs, nano |-> nsecs])

(* the i64 sum secs + nanos of two numbers of the same sign *)
AddSameSign(a, n) == Num(a.neg, StripZeros(AddNat(a.mag, Decimal(n), 0)))

(* The argument of Local.timestamp_nanos:
   seconds_since_epoch as i64 + (seconds_since_epoch.fract() * 1e9) as i64 *)
timestamp_ltz_nanos(f) == AddSameSign(as_i64(f), fract_nanos(f))

(* RawCell::Fixed *)
to_cell_fixed(v) ==
    LET i == ParseInt(trim_end_matches(v, <<".", "0">>))
        f == ParseFloat(v)
    IN IF i.ok THEN [t |-> "Int", v |-> i.val]
       ELSE IF f.ok THEN Float(f.val) ELSE Panic

(* RawCell::Real *)
to_cell_real(v) ==
    LET f == ParseFloat(v) IN IF f.ok THEN Float(f.val) ELSE Panic

(* RawCell::Text *)
to_cell_text(v) == [t |-> "Varchar", v |-> v]

(* RawCell::Binary *)
to_cell_binary(v) ==
    LET b == hex_decode(v) IN IF b.ok THEN [t |-> "Binary", v |-> b.val] ELSE Panic

(* RawCell::Boolean: str::parse::<bool> *)
to_cell_boolean(v) ==
    IF v = <<"t", "r", "u", "e">> THEN [t |-> "Boolean", v |-> TRUE]
    ELSE IF v = <<"f", "a", "l", "s", "e">> THEN [t |-> "Boolean", v |-> FALSE]
    ELSE Panic

(* RawCell::Date: 1970-01-01 + Duration::days(value.parse().unwrap()) *)
to_cell_date(v) ==
    LET d == ParseI64(v)
    IN IF d.ok /\ InDaysRange(d.val) THEN [t |-> "Date", days |-> d.val] ELSE Panic

(* RawCell::Time *)
to_cell_time(v) ==
    LET f == ParseFloat(v)
    IN IF ~f.ok THEN Panic
       ELSE LET time == from_num_seconds_from_midnight_opt(as_u32(f.val),
                                                           fract_nanos_as_u32(f.val))
            IN IF time.some THEN time.val ELSE Panic

(* RawCell::TimestampLtz: Local.timestamp_nanos(..) is given the sum as a count
   of nanoseconds since the epoch *)
to_cell_timestamp_ltz(v) ==
    LET f == ParseFloat(v)
    IN IF ~f.ok THEN Panic
       ELSE [t |-> "TimestampLtz", nanos |-> timestamp_ltz_nanos(f.val)]

(* RawCell::TimestampNtz *)
to_cell_timestamp_ntz(v) ==
    LET f == ParseFloat(v)
    IN IF ~f.ok THEN Panic
       ELSE LET ts == from_timestamp_opt(as_i64(f.val), fract_nanos_as_u32(f.val))
            IN IF ts.some THEN ts.val ELSE Panic

(* A mutant of to_cell_timestamp_tz that decodes the value as a zoneless
   timestamp *)
to_cell_timestamp_tz_as_ntz(v) == to_cell_timestamp_ntz(v)

(* RawCell::TimestampTz *)
to_cell_timestamp_tz(v) == Null

(* the match of to_cell on a present value *)
to_cell_match(tag, v) ==
    CASE tag = "fixed" -> to_cell_fixed(v)
      [] tag = "real" -> to_cell_real(v)
      [] tag = "text" -> to_cell_text(v)
      [] tag = "binary" -> to_cell_binary(v)
      [] tag = "boolean" -> to_cell_boolean(v)
      [] tag = "date" -> to_cell_date(v)
      [] tag = "time" -> to_cell_time(v)
      [] tag = "timestamp_ltz" -> to_cell_timestamp_ltz(v)
      [] tag = "timestamp_ntz" -> to_cell_timestamp_ntz(v)
      [] tag = "timestamp_tz" -> to_cell_timestamp_tz(v)

(* A mutant of to_cell that leaves NULL to the branches: text becomes the
   empty string, the parsing branches unwrap *)
to_cell_null_in_match(tag, value) ==
    IF value.some THEN to_cell_match(tag, value.val)
    ELSE IF tag = "timestamp_tz" THEN Null
    ELSE to_cell_match(tag, <<>>)

(* RawCell::to_cell, value an Option of a wire string: NULL first *)
to_cell(tag, value) ==
    IF ~value.some THEN Null ELSE to_cell_match(tag, value.val)

(* i128::abs: the least value has no positive counterpart; the overflow
   panics where overflow checks are compiled in and wraps where they are not *)
i128_abs(value) ==
    IF value = I128Min
    THEN IF overflow_checks THEN Err("attempt to negate with overflow") ELSE Ok(value)
    ELSE Ok(Num(FALSE, value.mag))

(* `value as i64`: the low 64 bits, which are the value itself below 2^63 in
   magnitude and 0 for -2^127; the guard of the branch lets no other value
   through *)
i128_as_i64(value) ==
    CASE NatLess(value.mag, TwoPow63) -> value
      [] value = I128Min -> Zero

(* i128::to_string *)
to_string(value) == (IF value.neg THEN <<"-">> ELSE <<>>) \o value.mag

(* impl From<Cell> for serde_json::Value.  The dates and times are rendered
   by chrono's Serialize; the text is kept as the value it renders. *)
to_json(cell) ==
    CASE cell.t = "Null" -> [j |-> "null"]
      [] cell.t = "Int" ->
           LET a == i128_abs(cell.v)
           IN IF ~a.ok THEN Panic
              ELSE IF NumLess(a.val, Num(FALSE, TwoPow53))
              THEN [j |-> "number", v |-> i128_as_i64(cell.v)]
              ELSE [j |-> "string", v |-> to_string(cell.v)]
      [] cell.t = "Float" -> [j |-> "number", v |-> cell.v]
      [] cell.t = "Varchar" -> [j |-> "string", v |-> cell.v]
      [] cell.t = "Binary" -> [j |-> "string", v |-> hex_encode(cell.v)]
      [] cell.t = "Boolean" -> [j |-> "bool", v |-> cell.v]
      [] cell.t \in {"Date", "Time", "TimestampLtz", "TimestampNtz"} ->
           [j |-> "string", chrono |-> cell]
      [] cell.t = "Panic" -> Panic     \* nothing is projected once the decode aborted

----------------------------------------------------------------------------
(* The result set held by the warehouse, and what it sends *)

(* rowType of resultSetMetaData: the same for every partition of the query *)
RowType == << [name |-> "IX", data_type |-> "fixed"],
              [name |-> "S", data_type |-> "text"] >>

(* Row g of the result set, as wire strings: IX counts the rows as seq4()
   does in live_tests.rs, written with a ".0" suffix on odd rows; S is NULL on
   every third row *)
WireRow(g) ==
    << Some(IF g % 2 = 1 THEN Decimal(g) \o <<".", "0">> ELSE Decimal(g)),
       IF g % 3 = 0 THEN None ELSE Some(Str1("a")) >>

(* Number of rows of page i under a layout: pages of 0, 1 and 2 rows *)
PageLen(layout, i) == (layout + i) % 3

(* The raw page of partition i: rows are numbered through the result set *)
ServerPage(layout, i) == [j \in 1..PageLen(layout, i) |-> WireRow(3 * i + j - 1)]

RECURSIVE TotalRows(_, _)
TotalRows(layout, n) == IF n = 0 THEN 0 ELSE TotalRows(layout, n - 1) + PageLen(layout, n - 1)

(* WireQueryResponse of a result set: metadata and the inline page *)
WireQueryResponse(srv) ==
    [ result_set_meta_data |->
        [ num_rows |-> TotalRows(srv.layout, srv.count),
          row_type |-> RowType,
          partition_info |-> [i \in 1..srv.count |-> "info"] ],
      data |-> ServerPage(srv.layout, 0),
      statement_status_url |-> "/api/v2/statements/handle" ]

(* WirePartitionResponse for GET ...?partition=index *)
WirePartitionResponse(srv, index) == [data |-> ServerPage(srv.layout, index)]

(* The error variants the warehouse answers with *)
ErrorBodies == { WireError("390144", "JWT token is invalid"),
                 WireError("000606", "No active warehouse") }

NoHttp == [http |-> "none"]
HttpFail == [http |-> "fail"]            \* reqwest::Error from send() or json()
HttpBody(w) == [http |-> "body", body |-> w]

(* Everything a GET for partition index can end in *)
FetchOutcomes(srv, index) ==
    {HttpFail} \cup {HttpBody(w) : w \in ErrorBodies}
               \cup {HttpBody(WireOk(WirePartitionResponse(srv, index)))}

(* WireDMLResult payloads of a DML statement *)
DMLResults ==
    { [message |-> "Statement executed successfully.",
       stats |-> [rows_inserted |-> 1, rows_deleted |-> 0, rows_updated |-> 0, duplicates |-> 0]],
      [message |-> "Statement executed successfully.",
       stats |-> [rows_inserted |-> 0, rows_deleted |-> 2, rows_updated |-> 1, duplicates |-> 0]] }

(* Everything the POST of a DML statement can end in *)
ManipulateOutcomes ==
    {HttpFail} \cup {HttpBody(w) : w \in ErrorBodies} \cup {HttpBody(WireOk(d)) : d \in DMLResults}

(* Everything the POST of the statement can end in *)
QueryOutcomes(srv) ==
    {HttpFail} \cup {HttpBody(w) : w \in ErrorBodies}
               \cup {HttpBody(WireOk(WireQueryResponse(srv)))}

----------------------------------------------------------------------------
(* Partition: src/src/partition.rs *)

(* A mutant of MkPartition where a partition without rows carries no column
   types *)
MkPartition_types_of_page(index, meta, data) ==
    [index |-> index,
     meta_data |-> IF Len(data) = 0 THEN [meta EXCEPT !.row_type = <<>>] ELSE meta,
     data |-> data]

MkPartition(index, meta, data) == [index |-> index, meta_data |-> meta, data |-> data]

Partition_num_rows(p) == Len(p.data)

raw_cells(p) == p.data

Min(a, b) == IF a < b THEN a ELSE b

(* Partition::cells: each row zipped with row_type, so a row is cut to the
   shorter of the two *)
cells(p) ==
    [r \in 1..Len(p.data) |->
        [c \in 1..Min(Len(p.data[r]), Len(p.meta_data.row_type)) |->
            to_cell(p.meta_data.row_type[c].data_type, p.data[r][c])]]

(* Partition::json_table *)
json_table(p) ==
    LET cs == cells(p)
    IN [r \in 1..Len(cs) |-> [c \in 1..Len(cs[r]) |-> to_json(cs[r][c])]]

(* Partition::json_objects: a map keyed by column name; of two columns of one
   name the later one wins *)
Partition_json_objects(p) ==
    LET t == json_table(p)
        names(row) == {p.meta_data.row_type[c].name : c \in 1..Len(row)}
        last(row, n) == CHOOSE c \in 1..Len(row) :
                          /\ p.meta_data.row_type[c].name = n
                          /\ \A d \in 1..Len(row) : p.meta_data.row_type[d].name = n => d <= c
    IN [r \in 1..Len(t) |-> [n \in names(t[r]) |-> t[r][last(t[r], n)]]]

----------------------------------------------------------------------------
(* QueryResponse: src/src/statement.rs *)

NoQR == [exists |-> FALSE]

(* WireQueryResponse::hydrate *)
hydrate(w) ==
    [ exists |-> TRUE,
      result_set_meta_data |-> w.result_set_meta_data,
      data |-> w.data,
      statement_status_url |-> w.statement_status_url ]

num_rows(q) == q.result_set_meta_data.num_rows
num_columns(q) == Len(q.result_set_meta_data.row_type)
num_partitions(q) == Len(q.result_set_meta_data.partition_info)
column_types(q) == q.result_set_meta_data.row_type

(* A mutant of only_partition that only rejects more than one partition *)
only_partition_at_most_one(q) ==
    IF num_partitions(q) > 1
    THEN Err(MultiplePartitions)
    ELSE Ok(MkPartition(0, q.result_set_meta_data, q.data))

(* QueryResponse::only_partition *)
only_partition(q) ==
    IF num_partitions(q) # 1
    THEN Err(MultiplePartitions)
    ELSE Ok(MkPartition(0, q.result_set_meta_data, q.data))

(* Statement::query after send(): json(), into_result() and hydrate() *)
query_result(http) ==
    IF http.http = "fail" THEN Err(RequestError)
    ELSE LET r == into_result(http.body)
         IN IF r.ok THEN Ok(hydrate(r.val)) ELSE r

(* Statement::manipulate after send(): json(), into_result() and Changes *)
manipulate_result(http) ==
    IF http.http = "fail" THEN Err(RequestError)
    ELSE LET r == into_result(http.body)
         IN IF r.ok
            THEN Ok([ message |-> r.val.message,
                      rows_inserted |-> r.val.stats.rows_inserted,
                      rows_deleted |-> r.val.stats.rows_deleted,
                      rows_updated |-> r.val.stats.rows_updated,
                      duplicates |-> r.val.stats.duplicates ])
            ELSE r

----------------------------------------------------------------------------
(* The future of QueryResponse::partition(index) *)

NoOut == [ready |-> FALSE]

(* A future that was created and not polled yet: an async fn does nothing
   until its first poll *)
NewFetch(index) ==
    [index |-> index, stage |-> "new", http |-> NoHttp, out |-> NoOut, reqs |-> <<>>]

Done(fut, out) == [fut EXCEPT !.stage = "done", !.out = out]

Resident(q, fut) ==
    Done(fut, Ok(Some(MkPartition(fut.index, q.result_set_meta_data, q.data))))

SendGet(fut) == [fut EXCEPT !.stage = "sent", !.reqs = Append(@, fut.index)]

(* A mutant of partition_first_poll whose bound is off by one *)
partition_bound_off_by_one(q, fut) ==
    IF fut.index = 0 THEN Resident(q, fut)
    ELSE IF fut.index > num_partitions(q) THEN Done(fut, Ok(None))
    ELSE SendGet(fut)

(* A mutant of partition_first_poll that fetches index 0 like any other *)
partition_fetch_zero(q, fut) ==
    IF fut.index >= num_partitions(q) /\ fut.index # 0 THEN Done(fut, Ok(None))
    ELSE SendGet(fut)

(* A mutant of partition_first_poll that answers index 1 from the page it
   holds *)
partition_inline_one(q, fut) ==
    IF fut.index = 0 \/ (fut.index = 1 /\ num_partitions(q) > 1) THEN Resident(q, fut)
    ELSE IF fut.index >= num_partitions(q) THEN Done(fut, Ok(None))
    ELSE SendGet(fut)

(* QueryResponse::partition up to its first await: index 0 and any
   index >= count complete at once, without I/O; any other index sends
   GET {statement_status_url}?partition=index.  client() is the call that
   built the client for the statement's POST, from the same configuration. *)
partition_first_poll(q, fut) ==
    IF fut.index = 0 THEN Resident(q, fut)
    ELSE IF fut.index >= num_partitions(q) THEN Done(fut, Ok(None))
    ELSE SendGet(fut)

(* A mutant of partition_response that sends the GET a second time when the
   first one failed *)
partition_response_retry_once(q, fut) ==
    IF fut.http.http = "fail"
    THEN IF Len(fut.reqs) < 2 THEN SendGet(fut) ELSE Done(fut, Err(RequestError))
    ELSE LET response == into_result(fut.http.body)
         IN IF response.ok
            THEN Done(fut, Ok(Some(MkPartition(fut.index, q.result_set_meta_data,
                                               response.val.data))))
            ELSE IF Len(fut.reqs) < 2 THEN SendGet(fut) ELSE Done(fut, response)

(* QueryResponse::partition from the response on: send() or json() failed, or
   the envelope goes through into_result *)
partition_response(q, fut) ==
    IF fut.http.http = "fail" THEN Done(fut, Err(RequestError))
    ELSE LET response == into_result(fut.http.body)
         IN IF response.ok
            THEN Done(fut, Ok(Some(MkPartition(fut.index, q.result_set_meta_data,
                                               response.val.data))))
            ELSE Done(fut, response)

(* One poll of the future of QueryResponse::partition(index): pending while
   the request is sent and not answered *)
partition(q, fut) ==
    CASE fut.stage = "new" -> partition_first_poll(q, fut)
      [] fut.stage = "responded" -> partition_response(q, fut)
      [] OTHER -> fut

(* The response of the warehouse reaches a future that is waiting for it *)
Respond(fut, http) == [fut EXCEPT !.stage = "responded", !.http = http]

----------------------------------------------------------------------------
(* QueryResponse::partitions: stream::iter(futures).buffered(1).then(unwrap) *)

(* A mutant of Lookahead: buffered(2) *)
LookaheadTwo == 1 + 1

Lookahead == 1     \* the argument of buffered()

NoStream == [mode |-> "none"]

StreamModes == {"partitions", "rows", "json_tables", "json_objects", "concat"}

(* The stream as the call that creates it leaves it: nothing is polled *)
NewStream(q, mode) ==
    [ mode |-> mode,
      n |-> num_partitions(q),      \* the range 0..num_partitions()
      iterNext |-> 0,               \* next index of the range
      queue |-> <<>>,               \* in_progress_queue of Buffered
      inner |-> None,               \* the partition try_flatten is walking through
      cur |-> 0 - 1,                \* index of the partition yielded last
      out |-> <<>>,                 \* items the consumer received
      reqs |-> <<>>,                \* partition parameters of the GETs sent, in order
      http |-> NoHttp,              \* the response behind the item Buffered yielded last
      cons |-> "want" ]             \* consumer: "want" the next item | "processing" one

(* A mutant of the range of partitions(): indices from the last to the first *)
RangeDescending(s) == s.n - 1 - s.iterNext

(* The index the range 0..num_partitions() hands out next *)
RangeNext(s) == s.iterNext

RECURSIVE Fill(_)
(* Buffered::poll_next, first loop: take futures from the range while the
   queue holds fewer than max *)
Fill(s) ==
    IF Len(s.queue) < Lookahead /\ s.iterNext < s.n
    THEN Fill([s EXCEPT !.queue = Append(@, NewFetch(RangeNext(s))), !.iterNext = @ + 1])
    ELSE s

(* The GETs sent by one poll of the queue, in queue order *)
Issued(before, after) ==
    LET pairs == [i \in 1..Len(before) |-> [a |-> before[i], b |-> after[i]]]
        sent == SelectSeq(pairs, LAMBDA x : Len(x.b.reqs) > Len(x.a.reqs))
    IN [i \in 1..Len(sent) |-> sent[i].b.index]

(* Buffered::poll_next: fill, poll the queued futures, yield the output of
   the oldest one when it is ready *)
BufferedPoll(q, s) ==
    LET s1 == Fill(s)
        polled == [i \in 1..Len(s1.queue) |-> partition(q, s1.queue[i])]
        s2 == [s1 EXCEPT !.queue = polled, !.reqs = @ \o Issued(s1.queue, polled)]
    IN IF Len(polled) > 0 /\ polled[1].stage = "done"
       THEN [s |-> [s2 EXCEPT !.queue = Tail(polled), !.http = polled[1].http],
             st |-> "Item", item |-> polled[1].out]
       ELSE IF Len(polled) = 0 /\ s2.iterNext >= s2.n
       THEN [s |-> s2, st |-> "End", item |-> NoOut]
       ELSE [s |-> s2, st |-> "Pending", item |-> NoOut]

(* The closure of then(): partition.map(|opt| opt.unwrap()), on what
   Buffered yields *)
Unwrapped(r) ==
    IF r.st # "Item" THEN r
    ELSE IF ~r.item.ok THEN r
    ELSE IF ~r.item.val.some THEN [r EXCEPT !.st = "Panic", !.item = NoOut]
    ELSE [s |-> [r.s EXCEPT !.cur = r.item.val.val.index],
          st |-> "Item", item |-> Ok(r.item.val.val)]

(* Then::poll_next over Buffered: one poll of the partitions() stream *)
PartitionsPoll(q, s) == Unwrapped(BufferedPoll(q, s))

(* The projection a derived stream maps over each partition *)
Project(mode, p) ==
    CASE mode = "rows" -> cells(p)
      [] mode = "json_tables" -> json_table(p)
      [] mode = "json_objects" -> Partition_json_objects(p)

RECURSIVE TryFlattenPoll(_, _)
(* A mutant of Flattened that starts each partition at its second row *)
FlattenedFromSecond(q, r) ==
    IF r.st = "Item" /\ r.item.ok
    THEN LET rows == Project(r.s.mode, r.item.val)
         IN TryFlattenPoll(q, [r.s EXCEPT !.inner =
                                  Some(IF Len(rows) > 0 THEN Tail(rows) ELSE rows)])
    ELSE r

(* try_flatten on the outcome r of the poll of the outer stream: a partition
   becomes the inner stream of its projected rows *)
Flattened(q, r) ==
    IF r.st = "Item" /\ r.item.ok
    THEN TryFlattenPoll(q, [r.s EXCEPT !.inner = Some(Project(r.s.mode, r.item.val))])
    ELSE r

(* map_ok(projection).try_flatten(): rows of the current partition first, and
   only when they are used up the next partition is asked for *)
TryFlattenPoll(q, s) ==
    IF s.inner.some
    THEN IF Len(s.inner.val) > 0
         THEN [s |-> [s EXCEPT !.inner = Some(Tail(s.inner.val))],
               st |-> "Item", item |-> Ok(Head(s.inner.val))]
         ELSE TryFlattenPoll(q, [s EXCEPT !.inner = None])
    ELSE Flattened(q, PartitionsPoll(q, s))

RECURSIVE Flatten(_)
Flatten(pages) == IF Len(pages) = 0 THEN <<>> ELSE Head(pages) \o Flatten(Tail(pages))

(* A mutant of concat_rows that puts each page in front of the ones before *)
concat_rows_reversed(parts) ==
    Flatten([i \in 1..Len(parts) |-> parts[Len(parts) + 1 - i].data])

(* concat_partitions, the loop over the collected partitions:
   cells.extend(partition.data.iter().cloned()) *)
concat_rows(parts) == Flatten([i \in 1..Len(parts) |-> parts[i].data])

(* try_collect and the rest of concat_partitions, on the outcome r of the
   poll of partitions(): an item is collected and the stream polled again *)
RECURSIVE TryCollectPoll(_, _)
Collected(q, r) ==
    IF r.st = "Item" /\ r.item.ok
    THEN TryCollectPoll(q, [r.s EXCEPT !.out = Append(@, r.item.val)])
    ELSE IF r.st = "End"
    THEN [r EXCEPT !.item = Ok(MkPartition(0, q.result_set_meta_data, concat_rows(r.s.out)))]
    ELSE r

(* One poll of concat_partitions *)
TryCollectPoll(q, s) == Collected(q, PartitionsPoll(q, s))

(* One poll of the stream or future a consumer holds *)
StreamPollNext(q, s) ==
    CASE s.mode = "partitions" -> PartitionsPoll(q, s)
      [] s.mode = "concat" -> TryCollectPoll(q, s)
      [] OTHER -> TryFlattenPoll(q, s)

----------------------------------------------------------------------------
(* Statement, the builder: src/src/statement.rs, src/src/bindings.rs *)

LowerChars == <<"a", "b", "c", "d", "e", "f", "g", "h", "i", "j", "k", "l", "m",
                "n", "o", "p", "q", "r", "s", "t", "u", "v", "w", "x", "y", "z">>
UpperChars == <<"A", "B", "C", "D", "E", "F", "G", "H", "I", "J", "K", "L", "M",
                "N", "O", "P", "Q", "R", "S", "T", "U", "V", "W", "X", "Y", "Z">>

(* str::to_ascii_uppercase *)
to_ascii_uppercase(s) ==
    [i \in 1..Len(s) |->
        IF \E k \in 1..26 : LowerChars[k] = s[i]
        THEN UpperChars[CHOOSE k \in 1..26 : LowerChars[k] = s[i]]
        ELSE s[i]]

(* The SnowflakeClient and the SQL text of the test tests::sql, in lower case
   where the test has upper case *)
Config == [ account |-> <<"a", "c", "c", "t">>,
            user |-> <<"u", "s", "e", "r">>,
            database |-> <<"d", "b">>,
            warehouse |-> <<"W", "h">>,
            role |-> Some(<<"r", "o", "l", "e">>) ]
Sql == <<"S", "E", "L", "E", "C", "T", " ", "?", ",", " ", "?">>

(* HashMap<String, Binding> as the set of its entries *)
HashMap_new == {}
HashMap_len(map) == Cardinality({e.k : e \in map})
HashMap_insert(map, k, v) == {e \in map : e.k # k} \cup {[k |-> k, v |-> v]}

(* Statement::new: the WireStatement *)
Statement_new(sql, config) ==
    [ statement |-> sql,
      timeout |-> Some(30),
      database |-> to_ascii_uppercase(config.database),
      warehouse |-> to_ascii_uppercase(config.warehouse),
      role |-> IF config.role.some THEN Some(to_ascii_uppercase(config.role.val)) ELSE None,
      bindings |-> HashMap_new ]

(* Statement::with_timeout *)
with_timeout(st, timeout_seconds) == [st EXCEPT !.timeout = Some(timeout_seconds)]

(* ToString of the values that are bound *)
Display(value) ==
    CASE value.ty = "i32" -> (IF value.int < 0 THEN <<"-">> \o Decimal(0 - value.int)
                              ELSE Decimal(value.int))
      [] value.ty = "bool" -> (IF value.bool THEN <<"t", "r", "u", "e">>
                               ELSE <<"f", "a", "l", "s", "e">>)
      [] value.ty = "str" -> value.str

(* impl_binding!: From<T> for Binding *)
Binding_from(value) ==
    [ type |-> IF value.ty = "i32" THEN "FIXED" ELSE "TEXT", value |-> Display(value) ]

(* A mutant of add_binding that numbers the bindings from 0 *)
add_binding_from_zero(st, value) ==
    [st EXCEPT !.bindings =
        HashMap_insert(@, Decimal(HashMap_len(@)), Binding_from(value))]

(* Statement::add_binding *)
add_binding(st, value) ==
    [st EXCEPT !.bindings =
        HashMap_insert(@, Decimal(HashMap_len(@) + 1), Binding_from(value))]

----------------------------------------------------------------------------
(* State machine *)

NoCall == [active |-> FALSE]
NoRet == [op |-> "none"]

ResultModes == {"rows", "json_tables", "json_objects", "concat"}

Ret(op, index, ret, reqs, http, yielded) ==
    [op |-> op, index |-> index, ret |-> ret, reqs |-> reqs, http |-> http, yielded |-> yielded]

(* No value is being decoded *)
CellIdle ==
    /\ rawValue = None
    /\ decoded = None
    /\ projected = None
    /\ view = None
    /\ matrix = None

(* The Statement as Statement::new made it, with no builder call *)
StatementIdle ==
    /\ stmt = Statement_new(Sql, Config)
    /\ calls = <<>>

Init ==
    /\ pc = "prepared"
    /\ server \in [count : 0..MaxParts, layout : 1..NumLayouts]
    /\ wire = NoHttp
    /\ queryRet = NoOut
    /\ qr = NoQR
    /\ call = NoCall
    /\ stream = NoStream
    /\ lastRet = NoRet
    /\ results = [m \in ResultModes |-> None]
    /\ drains = 0
    /\ drainReqs = 0
    /\ overflow_checks = FALSE    \* the rows of ServerPage hold integers of a few digits:
                                  \* nothing overflows, whichever the build
    /\ CellIdle
    /\ StatementIdle

(* Statement::query fails in send(): client() returns a Token error and
   nothing is sent *)
QueryNoClient ==
    /\ pc = "prepared"
    /\ queryRet' = Err(TokenError)
    /\ pc' = "failed"
    /\ UNCHANGED <<server, wire, qr, call, stream, lastRet, results, drains, drainReqs, unitVars>>

(* Statement::query: the POST and its response *)
Query ==
    /\ pc = "prepared"
    /\ \E http \in QueryOutcomes(server) :
         LET r == query_result(http)
         IN /\ wire' = http
            /\ queryRet' = r
            /\ qr' = IF r.ok THEN r.val ELSE NoQR
            /\ pc' = IF r.ok THEN "ready" ELSE "failed"
    /\ UNCHANGED <<server, call, stream, lastRet, results, drains, drainReqs, unitVars>>

(* Statement::manipulate: the POST of a DML statement and its response *)
Manipulate ==
    /\ pc = "prepared"
    /\ \E http \in ManipulateOutcomes :
         LET r == manipulate_result(http)
         IN /\ wire' = http
            /\ queryRet' = r
            /\ pc' = IF r.ok THEN "changed" ELSE "failed"
    /\ UNCHANGED <<server, qr, call, stream, lastRet, results, drains, drainReqs, unitVars>>

(* QueryResponse::only_partition(self): takes the QueryResponse, so nothing
   borrows it any more *)
OnlyPartition ==
    /\ pc = "ready"
    /\ ~call.active
    /\ stream = NoStream
    /\ lastRet' = Ret("only_partition", 0, only_partition(qr), <<>>, NoHttp, <<>>)
    /\ pc' = "consumed"
    /\ UNCHANGED <<server, wire, queryRet, qr, call, stream, results, drains, drainReqs, unitVars>>

(* A caller awaits partition(index): creation and first poll *)
CallPartition(index) ==
    /\ pc = "ready"
    /\ ~call.active
    /\ LET fut == partition(qr, NewFetch(index))
       IN IF fut.stage = "done"
          THEN /\ lastRet' = Ret("partition", index, fut.out, fut.reqs, fut.http, <<>>)
               /\ call' = NoCall
          ELSE /\ call' = [active |-> TRUE, fut |-> fut]
               /\ lastRet' = NoRet
    /\ UNCHANGED <<pc, server, wire, queryRet, qr, stream, results, drains, drainReqs, unitVars>>

(* The response to the GET of the awaited partition() arrives *)
CallRespond ==
    /\ call.active
    /\ call.fut.stage = "sent"
    /\ \E http \in FetchOutcomes(server, call.fut.index) :
         call' = [call EXCEPT !.fut = Respond(@, http)]
    /\ UNCHANGED <<pc, server, wire, queryRet, qr, stream, lastRet, results, drains, drainReqs, unitVars>>

(* The awaited partition() is polled again and returns *)
CallResume ==
    /\ call.active
    /\ call.fut.stage = "responded"
    /\ LET fut == partition(qr, call.fut)
       IN lastRet' = Ret("partition", fut.index, fut.out, fut.reqs, fut.http, <<>>)
    /\ call' = NoCall
    /\ UNCHANGED <<pc, server, wire, queryRet, qr, stream, results, drains, drainReqs, unitVars>>

(* partitions(), rows(), json_tables(), json_objects() or concat_partitions()
   is called: the stream is built and nothing is polled *)
StartStream(mode) ==
    /\ pc = "ready"
    /\ stream = NoStream
    /\ drains < MaxDrains
    /\ stream' = NewStream(qr, mode)
    /\ lastRet' = NoRet
    /\ UNCHANGED <<pc, server, wire, queryRet, qr, call, results, drains, drainReqs, unitVars>>

(* The consumption ends with ret: the stream is dropped *)
Finish(s, ret) ==
    /\ stream' = NoStream
    /\ lastRet' = Ret(s.mode, 0 - 1, ret, s.reqs, s.http, s.out)
    /\ IF ret.ok
       THEN /\ results' = IF s.mode \in ResultModes
                          THEN [results EXCEPT ![s.mode] = Some(ret.val)]
                          ELSE results
            /\ drains' = drains + 1
            /\ drainReqs' = drainReqs + Len(s.reqs)
       ELSE UNCHANGED <<results, drains, drainReqs>>

(* What the consumer does with the outcome r of its poll: try_for_each runs
   its closure on an item and stops at the first error or at the end *)
Consume(r) ==
    CASE r.st = "Pending" ->
           /\ stream' = r.s
           /\ UNCHANGED <<lastRet, results, drains, drainReqs>>
      [] r.st = "Item" /\ r.item.ok ->
           /\ stream' = [r.s EXCEPT !.out = Append(@, r.item.val), !.cons = "processing"]
           /\ UNCHANGED <<lastRet, results, drains, drainReqs>>
      [] r.st = "Item" /\ ~r.item.ok -> Finish(r.s, r.item)
      [] r.st = "End" -> Finish(r.s, IF r.s.mode = "concat" THEN r.item ELSE Ok(r.s.out))
      [] r.st = "Panic" -> Finish(r.s, Err([kind |-> "panic"]))

(* A poll that finds the fetch still pending and has nothing to start
   changes nothing *)
Progress(r) == r.st = "Pending" => r.s # stream

(* The consumer polls the stream (try_for_each for the streams, the caller's
   await for concat_partitions) *)
StreamPoll ==
    /\ stream.mode \in StreamModes
    /\ stream.cons = "want"
    /\ Progress(StreamPollNext(qr, stream))
    /\ Consume(StreamPollNext(qr, stream))
    /\ UNCHANGED <<pc, server, wire, queryRet, qr, call, unitVars>>

(* The fetches of a stream whose GET is sent and whose result no consumer
   received: in flight, or answered and waiting in the buffer *)
InFlight(s) ==
    LET started == SelectSeq(s.queue, LAMBDA fut : fut.stage \in {"sent", "responded"})
    IN [i \in 1..Len(started) |-> started[i].index]

(* A mutant of Dropped: the fetches were handed to a task of their own, and
   the stream goes on without its consumer *)
DroppedDetached(s) == [s EXCEPT !.cons = "want"]

(* What is left of a stream that is dropped: Buffered drops its queue and
   with it the futures, and a future that is dropped abandons its request *)
Dropped(s) == NoStream

(* The consumer abandons the stream or the future before it ended *)
DropStream ==
    /\ stream.mode \in StreamModes
    /\ stream' = Dropped(stream)
    /\ lastRet' = [op |-> "drop", mode |-> stream.mode, reqs |-> stream.reqs,
                   inFlight |-> InFlight(stream), cur |-> stream.cur]
    /\ UNCHANGED <<pc, server, wire, queryRet, qr, call, results, drains, drainReqs, unitVars>>

(* The response to a GET of the stream arrives *)
StreamRespond ==
    /\ stream.mode \in StreamModes
    /\ \E i \in 1..Len(stream.queue) :
         /\ stream.queue[i].stage = "sent"
         /\ \E http \in FetchOutcomes(server, stream.queue[i].index) :
              stream' = [stream EXCEPT !.queue[i] = Respond(@, http)]
    /\ UNCHANGED <<pc, server, wire, queryRet, qr, call, lastRet, results, drains, drainReqs, unitVars>>

(* The consumer is done with the item it received and asks for the next *)
ConsumerNext ==
    /\ stream.mode \in StreamModes
    /\ stream.cons = "processing"
    /\ stream' = [stream EXCEPT !.cons = "want"]
    /\ UNCHANGED <<pc, server, wire, queryRet, qr, call, lastRet, results, drains, drainReqs, unitVars>>

Next ==
    \/ QueryNoClient
    \/ Query
    \/ Manipulate
    \/ OnlyPartition
    \/ \E index \in 0..(MaxParts + 1) : CallPartition(index)
    \/ CallRespond
    \/ CallResume
    \/ \E mode \in StreamModes : StartStream(mode)
    \/ StreamPoll
    \/ StreamRespond
    \/ ConsumerNext
    \/ DropStream

Spec == Init /\ [][Next]_vars

----------------------------------------------------------------------------
(* The builder on its own: any sequence of add_binding and with_timeout *)

MaxCalls == 4      \* builder calls on one Statement

(* The values of tests::sql and can_query_with_many_bindings that are bound *)
BindingInputs ==
    { [ty |-> "i32", int |-> 10],
      [ty |-> "i32", int |-> 0 - 3],
      [ty |-> "bool", bool |-> TRUE],
      [ty |-> "str", str |-> <<"H", "e", "n", "r", "y">>] }

TimeoutInputs == {5, 30}

(* No query runs *)
EngineIdle ==
    /\ pc = "prepared"
    /\ server = [count |-> 0, layout |-> 1]
    /\ wire = NoHttp
    /\ queryRet = NoOut
    /\ qr = NoQR
    /\ call = NoCall
    /\ stream = NoStream
    /\ lastRet = NoRet
    /\ results = [m \in ResultModes |-> None]
    /\ drains = 0
    /\ drainReqs = 0

StatementInit ==
    /\ EngineIdle
    /\ overflow_checks = FALSE    \* the builder does no arithmetic that could overflow
    /\ CellIdle
    /\ StatementIdle

AddBinding(value) ==
    /\ Len(calls) < MaxCalls
    /\ stmt' = add_binding(stmt, value)
    /\ calls' = Append(calls, [op |-> "add_binding", value |-> value])
    /\ UNCHANGED <<engineVars, overflow_checks, cellVars>>

WithTimeout(timeout_seconds) ==
    /\ Len(calls) < MaxCalls
    /\ stmt' = with_timeout(stmt, timeout_seconds)
    /\ calls' = Append(calls, [op |-> "with_timeout", secs |-> timeout_seconds])
    /\ UNCHANGED <<engineVars, overflow_checks, cellVars>>

StatementNext ==
    \/ \E value \in BindingInputs : AddBinding(value)
    \/ \E t \in TimeoutInputs : WithTimeout(t)

StatementSpec == StatementInit /\ [][StatementNext]_vars

----------------------------------------------------------------------------
(* The decoder on its own: RawCell::to_cell and the projection to
   serde_json::Value on one wire value, Partition::cells on one page *)

MaxCols == 2       \* declared columns of a page: 0..MaxCols; a row has up to one more value
MaxRows == 2       \* rows of a page

(* Wire strings as the warehouse writes them for the ten type tags, the ends
   of the ranges of i128 and of the integers a JSON consumer keeps exact, and
   strings no tag but text accepts *)
WireValues ==
    { <<"1">>,
      <<"1", ".", "0">>,
      <<"1", ".", "1">>,
      <<"1", ".", "0", ".", "0">>,
      <<"-", "7">>,
      <<"0", ".", "0">>,
      <<".", "0">>,
      <<"1", ".", "0", "0">>,
      <<"+", "5">>,
      <<"-", "0">>,
      <<"1", "0", ".", "0">>,
      <<"9", "0", "0", "7", "1", "9", "9", "2", "5", "4", "7", "4", "0", "9", "9", "1">>,
      <<"9", "0", "0", "7", "1", "9", "9", "2", "5", "4", "7", "4", "0", "9", "9", "2">>,
      <<"-", "9", "0", "0", "7", "1", "9", "9", "2", "5", "4", "7", "4", "0", "9", "9", "1">>,
      <<"-", "9", "0", "0", "7", "1", "9", "9", "2", "5", "4", "7", "4", "0", "9", "9", "2">>,
      <<"9", "0", "0", "7", "1", "9", "9", "2", "5", "4", "7", "4", "0", "9", "9", "2", ".", "0">>,
      <<"1", "7", "0", "1", "4", "1", "1", "8", "3", "4", "6", "0", "4", "6", "9", "2", "3", "1", "7", "3", "1", "6", "8", "7", "3", "0", "3", "7", "1", "5", "8", "8", "4", "1", "0", "5", "7", "2", "7">>,
      <<"-", "1", "7", "0", "1", "4", "1", "1", "8", "3", "4", "6", "0", "4", "6", "9", "2", "3", "1", "7", "3", "1", "6", "8", "7", "3", "0", "3", "7", "1", "5", "8", "8", "4", "1", "0", "5", "7", "2", "8">>,
      <<"1", "7", "0", "1", "4", "1", "1", "8", "3", "4", "6", "0", "4", "6", "9", "2", "3", "1", "7", "3", "1", "6", "8", "7", "3", "0", "3", "7", "1", "5", "8", "8", "4", "1", "0", "5", "7", "2", "8">>,
      <<"1", ".", "5">>,
      <<"0", ".", "2", "5">>,
      <<"8", "6", "3", "9", "9", ".", "5">>,
      <<"8", "6", "4", "0", "0">>,
      <<"-", "1", ".", "5">>,
      <<"1", "7", "0", "0", "0", "0", "0", "0", "0", "0", ".", "5">>,
      <<"1", "9", "3", "5", "8">>,
      <<"t", "r", "u", "e">>,
      <<"f", "a", "l", "s", "e">>,
      <<"0", "a", "1", "F">>,
      <<"0", "a", "1">>,
      <<"a", "b", "c">>,
      <<>> }

RawInputs == {[tag |-> tag, value |-> value] :
                 tag \in RawCell, value \in {None} \cup {Some(w) : w \in WireValues}}

(* Column c of a page: fixed and text in turn, as RowType *)
Column(c) == IF c % 2 = 1 THEN RowType[1] ELSE RowType[2]

PageValues == {None, Some(<<"1", ".", "0">>)}

PageRows == UNION {[1..n -> PageValues] : n \in 0..(MaxCols + 1)}

(* Partitions over any page of up to MaxRows rows, each row of its own
   length, under 0..MaxCols declared columns *)
Views ==
    { MkPartition(0,
                  [num_rows |-> Len(data), row_type |-> [c \in 1..cols |-> Column(c)],
                   partition_info |-> <<"info">>],
                  data) :
        cols \in 0..MaxCols, data \in UNION {[1..n -> PageRows] : n \in 0..MaxRows} }

CellInit ==
    /\ EngineIdle
    /\ StatementIdle
    /\ overflow_checks \in BOOLEAN
    /\ decoded = None
    /\ projected = None
    /\ matrix = None
    /\ \/ rawValue \in {Some(i) : i \in RawInputs} /\ view = None
       \/ rawValue = None /\ view \in {Some(p) : p \in Views}

(* row_type.data_type.to_cell(value) *)
ToCell ==
    /\ rawValue.some
    /\ ~decoded.some
    /\ decoded' = Some(to_cell(rawValue.val.tag, rawValue.val.value))
    /\ UNCHANGED <<engineVars, overflow_checks, rawValue, projected, view, matrix, stmtVars>>

(* cell.into(): the projection of a Cell that to_cell returned *)
ToJson ==
    /\ decoded.some
    /\ decoded.val # Panic
    /\ ~projected.some
    /\ projected' = Some(to_json(decoded.val))
    /\ UNCHANGED <<engineVars, overflow_checks, rawValue, decoded, view, matrix, stmtVars>>

(* Partition::cells *)
Cells ==
    /\ view.some
    /\ ~matrix.some
    /\ matrix' = Some(cells(view.val))
    /\ UNCHANGED <<engineVars, overflow_checks, rawValue, decoded, projected, view, stmtVars>>

CellNext ==
    \/ ToCell
    \/ ToJson
    \/ Cells

CellSpec == CellInit /\ [][CellNext]_vars

----------------------------------------------------------------------------
(* Properties *)

Count == server.count                        \* length of partitionInfo as sent
InlineRows == ServerPage(server.layout, 0)   \* data of the statement's response

(* C1: only_partition returns Ok exactly when the partition count is 1 and
   Err(MultiplePartitions) for 0 and for 2 or more; it sends no request, and
   the partition it returns has index 0 and the inline rows. *)
C1_OnlyPartition ==
    lastRet.op = "only_partition" =>
        /\ lastRet.ret.ok <=> Count = 1
        /\ ~lastRet.ret.ok => lastRet.ret.err = MultiplePartitions
        /\ lastRet.reqs = <<>>
        /\ lastRet.ret.ok => /\ lastRet.ret.val.index = 0
                             /\ raw_cells(lastRet.ret.val) = InlineRows

C1_Witness ==
    /\ lastRet.op = "only_partition"
    /\ lastRet.ret.ok
    /\ Len(lastRet.ret.val.data) > 0

C3_FirstResident ==
    (lastRet.op = "partition" /\ lastRet.index = 0) =>
        /\ lastRet.ret.ok
        /\ lastRet.ret.val.some
        /\ lastRet.ret.val.val.index = 0
        /\ raw_cells(lastRet.ret.val.val) = InlineRows
        /\ lastRet.reqs = <<>>

(* partition(0) returns after a full drain that fetched, while another
   stream is being consumed *)
C3_Witness ==
    /\ lastRet.op = "partition"
    /\ lastRet.index = 0
    /\ lastRet.ret.ok
    /\ Count >= 2
    /\ drains >= 1
    /\ stream.mode \in StreamModes

Indices(parts) == [i \in 1..Len(parts) |-> parts[i].index]
UpTo(first, n) == [i \in 1..(IF n > 0 THEN n ELSE 0) |-> first + i - 1]   \* <<first, .., first+n-1>>

(* C4: the partitions() stream yields the partitions 0, 1, .. in ascending
   order, each once, and sends the GETs for 1, 2, .. in ascending order; a
   drain that ends without error yielded exactly 0..count-1 and sent exactly
   1..count-1. *)
C4_AscendingOrder ==
    /\ stream.mode = "partitions" =>
          /\ Indices(stream.out) = UpTo(0, Len(stream.out))
          /\ stream.reqs = UpTo(1, Len(stream.reqs))
    /\ (lastRet.op = "partitions" /\ lastRet.ret.ok) =>
          /\ Indices(lastRet.ret.val) = UpTo(0, Count)
          /\ lastRet.reqs = UpTo(1, Count - 1)

C4_Witness ==
    /\ lastRet.op = "partitions"
    /\ lastRet.ret.ok
    /\ Len(lastRet.ret.val) = MaxParts
    /\ Len(lastRet.reqs) = MaxParts - 1

(* Fetches of a stream that were started (their GET is sent) and whose result
   Buffered has not yielded yet *)
StartedFetches(s) == {i \in 1..Len(s.queue) : s.queue[i].stage # "new"}

(* C5: at any moment of a consumption at most one fetch is started and not
   yet handed on by Buffered, and no fetch of a later index is started while
   an earlier one is outstanding or waiting in the buffer. *)
C5_LookaheadOne ==
    stream.mode \in StreamModes =>
        /\ Cardinality(StartedFetches(stream)) <= 1
        /\ \A i, j \in 1..Len(stream.queue) :
              (i < j /\ stream.queue[i].stage # "new") => stream.queue[j].stage = "new"
        /\ \A i \in StartedFetches(stream) : stream.queue[i].index = stream.cur + 1

(* the response for partition 1 lies in the buffer and is not polled yet *)
C5_Witness ==
    /\ stream.mode = "partitions"
    /\ Len(stream.queue) = 1
    /\ stream.queue[1].stage = "responded"
    /\ stream.queue[1].index = 1
    /\ Count = MaxParts

(* C6 as stated: while the consumer processes partition k of the partitions()
   stream and k+1 < count, the fetch of partition k+1 is in flight. *)
C6_FetchOverlapsProcessing ==
    (stream.mode = "partitions" /\ stream.cons = "processing" /\ stream.cur + 1 < Count) =>
        \E i \in 1..Len(stream.queue) :
            /\ stream.queue[i].index = stream.cur + 1
            /\ stream.queue[i].stage # "new"

AllPages == Flatten([i \in 1..Count |-> ServerPage(server.layout, i - 1)])

(* C7: the rows a full drain of rows() yields are, in order, the rows of
   concat_partitions().cells(); there are as many as the partitions hold
   together; json_tables() and json_objects() yield one item per row, in the
   same order. *)
C7_StreamEqualsConcat ==
    /\ (results["rows"].some /\ results["concat"].some) =>
          /\ results["rows"].val = cells(results["concat"].val)
          /\ Len(results["rows"].val) = TotalRows(server.layout, Count)
          /\ Partition_num_rows(results["concat"].val) = TotalRows(server.layout, Count)
    /\ (results["json_tables"].some /\ results["concat"].some) =>
          results["json_tables"].val = json_table(results["concat"].val)
    /\ (results["json_objects"].some /\ results["concat"].some) =>
          results["json_objects"].val = Partition_json_objects(results["concat"].val)
    /\ \A m \in ResultModes \ {"concat"} :
          results[m].some => Len(results[m].val) = TotalRows(server.layout, Count)
    /\ (results["rows"].some /\ results["json_tables"].some) =>
          \A r \in 1..Len(results["rows"].val) :
              results["json_tables"].val[r]
                = [c \in 1..Len(results["rows"].val[r]) |-> to_json(results["rows"].val[r][c])]

C7_Witness ==
    /\ results["rows"].some
    /\ results["concat"].some
    /\ Count = MaxParts
    /\ Len(results["rows"].val) >= 3
    /\ \E r \in 1..Len(results["rows"].val) : results["rows"].val[r][1] = [t |-> "Int", v |-> Num(FALSE, <<"3">>)]

(* C8: concat_partitions returns one partition of index 0 whose raw rows are
   the rows of partition 0, then those of partition 1, and so on, so that its
   num_rows() is the sum of the partitions' row counts. *)
C8_ConcatInOrder ==
    (lastRet.op = "concat" /\ lastRet.ret.ok) =>
        /\ lastRet.ret.val.index = 0
        /\ raw_cells(lastRet.ret.val) = AllPages
        /\ Partition_num_rows(lastRet.ret.val) = TotalRows(server.layout, Count)
        /\ lastRet.ret.val.meta_data = qr.result_set_meta_data

C8_Witness ==
    /\ lastRet.op = "concat"
    /\ lastRet.ret.ok
    /\ Count = MaxParts
    /\ Len(lastRet.yielded) = MaxParts
    /\ Len(lastRet.yielded[1].data) > 0
    /\ Len(lastRet.yielded[MaxParts].data) > 0
    /\ Len(lastRet.ret.val.data) >= 3

(* C9: nothing is cached.  Every partition(i) with 1 <= i < count sends
   exactly one GET with partition=i, also when i was fetched before, and on a
   success payload returns the partition of index i with the rows of that
   payload; every full drain sends count-1 GETs, and so do k drains k times. *)
C9_NoCache ==
    /\ (lastRet.op = "partition" /\ 1 <= lastRet.index /\ lastRet.index < Count) =>
          /\ lastRet.reqs = <<lastRet.index>>
          /\ (lastRet.http.http = "body" /\ lastRet.http.body.tag = "Ok") =>
                lastRet.ret = Ok(Some(MkPartition(lastRet.index, qr.result_set_meta_data,
                                                  lastRet.http.body.payload.data)))
    /\ (lastRet.op \in StreamModes /\ lastRet.ret.ok /\ Count >= 1) =>
          Len(lastRet.reqs) = Count - 1
    /\ Count >= 1 => drainReqs = drains * (Count - 1)
    /\ Count = 0 => drainReqs = 0

(* partition(1) returns after two full drains that fetched partition 1 *)
C9_Witness ==
    /\ lastRet.op = "partition"
    /\ lastRet.index = 1
    /\ lastRet.ret.ok
    /\ Count >= 2
    /\ drains >= 2
    /\ drainReqs >= 2

(* C10: the response of the POST and of every GET goes through the envelope:
   the error variant {code, message} comes back as Err(ServerError) with that
   code and that message, the success variant as its payload. *)
C10_Envelope ==
    /\ (pc # "prepared" /\ wire.http = "body") =>
          /\ wire.body.tag = "Error" =>
                queryRet = Err(ServerError(wire.body.code, wire.body.message))
          /\ (wire.body.tag = "Ok" /\ pc = "changed") =>
                /\ queryRet.ok
                /\ queryRet.val.message = wire.body.payload.message
                /\ queryRet.val.rows_deleted = wire.body.payload.stats.rows_deleted
          /\ (wire.body.tag = "Ok" /\ pc # "changed") =>
                /\ queryRet.ok
                /\ queryRet.val.result_set_meta_data = wire.body.payload.result_set_meta_data
                /\ queryRet.val.data = wire.body.payload.data
                /\ queryRet.val.statement_status_url = wire.body.payload.statement_status_url
    /\ (lastRet.op = "partition" /\ lastRet.http.http = "body") =>
          /\ lastRet.http.body.tag = "Error" =>
                lastRet.ret = Err(ServerError(lastRet.http.body.code, lastRet.http.body.message))
          /\ lastRet.http.body.tag = "Ok" =>
                /\ lastRet.ret.ok
                /\ lastRet.ret.val.val.data = lastRet.http.body.payload.data

C10_Witness ==
    /\ lastRet.op = "partition"
    /\ lastRet.http.http = "body"
    /\ lastRet.http.body.tag = "Error"
    /\ lastRet.ret = Err(ServerError("000606", "No active warehouse"))

BindingCalls == SelectSeq(calls, LAMBDA c : c.op = "add_binding")
TimeoutCalls == SelectSeq(calls, LAMBDA c : c.op = "with_timeout")

(* C17: after n add_binding calls on a fresh Statement the bindings are
   exactly n, their keys are the decimal strings "1".."n", and key i holds the
   i-th value that was added; the SQL text, database, warehouse and role are
   those of Statement::new, and the timeout is the one set last by
   with_timeout, or that of Statement::new. *)
C17_BindingsNumbered ==
    /\ HashMap_len(stmt.bindings) = Len(BindingCalls)
    /\ Cardinality(stmt.bindings) = Len(BindingCalls)
    /\ \A i \in 1..Len(BindingCalls) :
          [k |-> Decimal(i), v |-> Binding_from(BindingCalls[i].value)] \in stmt.bindings
    /\ stmt.statement = Sql
    /\ stmt.database = <<"D", "B">>
    /\ stmt.warehouse = <<"W", "H">>
    /\ stmt.role = Some(<<"R", "O", "L", "E">>)
    /\ stmt.timeout = IF Len(TimeoutCalls) = 0 THEN Some(30)
                      ELSE Some(TimeoutCalls[Len(TimeoutCalls)].secs)

(* three values bound, the second after a with_timeout *)
C17_Witness ==
    /\ Len(BindingCalls) = 3
    /\ Len(calls) = 4
    /\ calls[2].op = "with_timeout"
    /\ [k |-> <<"3">>, v |-> [type |-> "TEXT", value |-> <<"H", "e", "n", "r", "y">>]]
          \in stmt.bindings
    /\ [k |-> <<"1">>, v |-> [type |-> "FIXED", value |-> <<"-", "3">>]] \in stmt.bindings

RawTag == rawValue.val.tag
RawWire == rawValue.val.value

(* C11: for each of the ten type tags an absent wire value decodes to
   Cell::Null, never to a panic or to another Cell. *)
C11_NullFirst ==
    (rawValue.some /\ decoded.some /\ ~RawWire.some) => decoded.val = Null

(* NULL was decoded under a tag whose parser rejects the empty string *)
C11_Witness ==
    /\ rawValue.some
    /\ decoded.some
    /\ ~RawWire.some
    /\ RawTag = "date"
    /\ decoded.val = Null

(* str::strip_suffix, or the string itself: one trailing suffix removed *)
StripOnce(s, pat) ==
    IF Len(pat) > 0 /\ EndsWith(s, pat) THEN SubSeq(s, 1, Len(s) - Len(pat)) ELSE s

(* C12 as stated: a fixed wire string v decodes to Int(n) if v with one
   trailing ".0" removed parses as the i128 n, and otherwise to the Float that
   v parses as; so "1.0.0" is no Int. *)
C12_FixedOneSuffix ==
    (rawValue.some /\ decoded.some /\ RawWire.some /\ RawTag = "fixed") =>
        LET n == ParseInt(StripOnce(RawWire.val, <<".", "0">>))
            f == ParseFloat(RawWire.val)
        IN /\ n.ok => decoded.val = [t |-> "Int", v |-> n.val]
           /\ ~n.ok => decoded.val.t # "Int"
           /\ (~n.ok /\ f.ok) => decoded.val = Float(f.val)

(* C13: under the tag timestamp_tz every wire value, absent or present, well
   formed or not, decodes to Cell::Null. *)
C13_TimestampTzNull ==
    (rawValue.some /\ decoded.some /\ RawTag = "timestamp_tz") => decoded.val = Null

(* a well-formed timestamp was decoded under timestamp_tz *)
C13_Witness ==
    /\ rawValue.some
    /\ decoded.some
    /\ RawTag = "timestamp_tz"
    /\ RawWire = Some(<<"1", "7", "0", "0", "0", "0", "0", "0", "0", "0", ".", "5">>)
    /\ decoded.val = Null

(* C14 as stated: Int(x) projects to the JSON number x when |x| < 2^53 and to
   the JSON string of x's decimal rendering when |x| >= 2^53, without overflow
   or panic for every x of i128, -2^127 included. *)
C14_IntProjection ==
    (decoded.some /\ projected.some /\ decoded.val.t = "Int") =>
        LET x == decoded.val.v
        IN /\ projected.val # Panic
           /\ IF NatLess(x.mag, TwoPow53)
              THEN projected.val.j = "number" /\ projected.val.v = x
              ELSE projected.val.j = "string" /\ projected.val.v = to_string(x)

(* secs seconds and nano nanoseconds after the epoch, in nanoseconds, for
   numbers of one sign: secs * 10^9 + nano *)
NanosSinceEpoch(secs, nano) ==
    LET d == Decimal(nano)
    IN Num(secs.neg, StripZeros(secs.mag \o [i \in 1..(9 - Len(d)) |-> "0"] \o d))

(* C15 as stated: a timestamp_ltz wire value of s whole seconds and fraction
   f denotes the instant s * 10^9 + f * 10^9 nanoseconds after the epoch, the
   one the same string denotes as timestamp_ntz. *)
C15_LtzAsNtz ==
    (rawValue.some /\ decoded.some /\ RawWire.some /\ RawTag = "timestamp_ltz"
       /\ decoded.val # Panic) =>
        LET f == ParseFloat(RawWire.val).val
            ntz == to_cell_timestamp_ntz(RawWire.val)
        IN /\ decoded.val.nanos = NanosSinceEpoch(as_i64(f), fract_nanos(f))
           /\ (ntz # Panic /\ ~f.neg) =>
                 decoded.val.nanos = NanosSinceEpoch(ntz.secs, ntz.nano)

(* C19 as stated: Partition::cells has as many rows as raw_cells(), each
   decoded row is as long as its raw row, also where that differs from the
   number of declared columns, and cell (r, c) is to_cell of raw value (r, c)
   under the tag of column c. *)
C19_CellsShape ==
    (view.some /\ matrix.some) =>
        LET rawRows == raw_cells(view.val)
            types == view.val.meta_data.row_type
        IN /\ Len(matrix.val) = Len(rawRows)
           /\ \A r \in 1..Len(rawRows) :
                 /\ Len(matrix.val[r]) = Len(rawRows[r])
                 /\ \A c \in 1..Len(rawRows[r]) :
                       matrix.val[r][c] = to_cell(types[c].data_type, rawRows[r][c])

(* C16 as stated: partition(index) returns Err when the partition does not
   exist, that is for every index that is not below the partition count. *)
C16_MissingPartitionIsError ==
    (lastRet.op = "partition" /\ lastRet.index >= Count) => ~lastRet.ret.ok

(* C18: when a consumer drops a stream before its end, at most one fetch is
   in flight, and it is the one of the partition after the last one yielded;
   the requests sent until then are those for 1, 2, .. up to that partition at
   most; nothing of the stream is left that could send a request; and the
   QueryResponse is the one Statement::query returned and accepts further
   calls. *)
C18_DropDiscards ==
    lastRet.op = "drop" =>
        /\ stream = NoStream
        /\ Len(lastRet.inFlight) <= 1
        /\ \A i \in 1..Len(lastRet.inFlight) : lastRet.inFlight[i] = lastRet.cur + 1
        /\ lastRet.reqs = UpTo(1, Len(lastRet.reqs))
        /\ Len(lastRet.reqs) <= lastRet.cur + 1
        /\ pc = "ready"
        /\ qr = hydrate(wire.body.payload)
        /\ qr.data = InlineRows
        /\ num_partitions(qr) = Count

(* a rows() stream is dropped while the GET of partition 2 is in flight,
   after a drain had completed *)
C18_Witness ==
    /\ lastRet.op = "drop"
    /\ lastRet.mode = "rows"
    /\ lastRet.inFlight = <<2>>
    /\ lastRet.reqs = <<1, 2>>
    /\ drains >= 1

(* The error a failed response turns into *)
ErrorOf(http) ==
    IF http.http = "fail" THEN RequestError
    ELSE ServerError(http.body.code, http.body.message)

(* C20: when the fetch of partition k fails, partitions() and
   concat_partitions end with the error of that response; one GET was sent
   for each of 1..k and none for a later index; the stream had yielded
   partitions 0..k-1 in order; concat_partitions returns no partition. *)
C20_FailurePropagates ==
    (lastRet.op \in {"partitions", "concat"} /\ ~lastRet.ret.ok) =>
        LET k == Len(lastRet.reqs)
        IN /\ 1 <= k /\ k < Count
           /\ lastRet.reqs = UpTo(1, k)
           /\ Indices(lastRet.yielded) = UpTo(0, k)
           /\ lastRet.http.http = "fail" \/ lastRet.http.body.tag = "Error"
           /\ lastRet.ret = Err(ErrorOf(lastRet.http))

(* concat_partitions fails at partition 2 of 3 with a server error *)
C20_Witness ==
    /\ lastRet.op = "concat"
    /\ Count = MaxParts
    /\ lastRet.reqs = <<1, 2>>
    /\ lastRet.ret = Err(ServerError("000606", "No active warehouse"))

----------------------------------------------------------------------------
(* Immutability of QueryResponse and Partition *)

(* The partitions the caller holds: returned by partition(), only_partition()
   or concat_partitions(), or yielded by partitions() *)
Produced ==
    LET Elements(s) == {s[i] : i \in 1..Len(s)}
    IN (IF lastRet.op = "partition" /\ lastRet.ret.ok /\ lastRet.ret.val.some
        THEN {lastRet.ret.val.val} ELSE {})
       \cup (IF lastRet.op \in {"only_partition", "concat"} /\ lastRet.ret.ok
            THEN {lastRet.ret.val} ELSE {})
       \cup (IF lastRet.op \in {"partitions", "concat"}
            THEN Elements(lastRet.yielded) ELSE {})
       \cup (IF stream.mode \in {"partitions", "concat"}
            THEN Elements(stream.out) ELSE {})

(* Every partition held carries the metadata of the query, and the
   QueryResponse is the one Statement::query built from the response *)
SharedMetaData ==
    /\ qr.exists => /\ qr = hydrate(wire.body.payload)
                    /\ column_types(qr) = RowType
                    /\ num_partitions(qr) = Count
                    /\ qr.data = InlineRows
    /\ \A p \in Produced :
          /\ p.meta_data = qr.result_set_meta_data
          /\ p.meta_data.row_type = column_types(qr)

(* No call changes the QueryResponse or the pages of the result set, and a
   drain that is repeated ends with the result of the one before *)
NothingMutated ==
    /\ qr.exists => (qr' = qr /\ wire' = wire /\ server' = server)
    /\ \A m \in ResultModes :
          (results[m].some /\ results'[m].some) => results'[m] = results[m]

(* C21: a QueryResponse and its partitions are immutable: once built, no
   accessor, fetch or stream changes the metadata, the partition count, the
   inline page or a page of the result set; a drain repeated on the same
   QueryResponse gives the result of the first; and every partition one
   QueryResponse produces carries the column types of the query. *)
C21_Immutable == []SharedMetaData /\ [][NothingMutated]_vars

(* concat_partitions has been drained twice over three partitions, and the
   second result is held *)
C21_Witness ==
    /\ drains = MaxDrains
    /\ Count = MaxParts
    /\ lastRet.op = "concat"
    /\ lastRet.ret.ok
    /\ lastRet.ret.val \in Produced
    /\ Len(lastRet.yielded) = Count
    /\ results["concat"] = Some(lastRet.ret.val)
    /\ \A m \in ResultModes \ {"concat"} : ~results[m].some

----------------------------------------------------------------------------
(* Seconds with a fraction: time and timestamp_ntz *)

(* The number f in nanoseconds, truncated: its integer part and the first nine
   digits of its fraction, under its sign *)
TruncNanos(f) ==
    LET d == Decimal(fract_nanos(f))
    IN Num(f.neg, StripZeros(f.int \o [i \in 1..(9 - Len(d)) |-> "0"] \o d))

(* ts.secs * 10^9 + ts.nano = n, for a timestamp whose nano is not negative *)
DenotesNanos(ts, n) ==
    IF ts.secs.neg /\ ts.nano > 0
    THEN /\ n.neg
         /\ NanosSinceEpoch(ts.secs, 0).mag = StripZeros(AddNat(n.mag, Decimal(ts.nano), 0))
    ELSE NanosSinceEpoch(ts.secs, ts.nano) = n

(* C22 as stated: a time value of t seconds, 0 <= t < 86400, decodes to the
   time of day whose seconds are the integer part of t and whose nanoseconds
   are the fraction of t times 10^9, truncated; a timestamp_ntz value of t
   seconds since the epoch decodes by the same split, so that whole seconds
   and nanoseconds together are t; a time has no date and a timestamp_ntz no
   zone. *)
C22_SecondsSplit ==
    (rawValue.some /\ decoded.some /\ RawWire.some
       /\ RawTag \in {"time", "timestamp_ntz"} /\ ParseFloat(RawWire.val).ok) =>
        LET f == ParseFloat(RawWire.val).val
        IN /\ (RawTag = "time" /\ ~f.neg /\ NatLess(f.int, <<"8", "6", "4", "0", "0">>)) =>
                 /\ decoded.val # Panic
                 /\ decoded.val.t = "Time"
                 /\ decoded.val.secs = NatVal(f.int)
                 /\ decoded.val.nano = fract_nanos(f)
           /\ (RawTag = "timestamp_ntz" /\ InSecondsRange(Num(f.neg, f.int))) =>
                 /\ decoded.val # Panic
                 /\ decoded.val.t = "TimestampNtz"
                 /\ DenotesNanos(decoded.val, TruncNanos(f))

----------------------------------------------------------------------------
(* Values that do not have the form of their column's type *)

(* t < 0 or t >= 86400, for a number t *)
OutsideDay(f) ==
    \/ f.neg /\ (f.int # <<"0">> \/ f.frac # <<>>)
    \/ ~NatLess(f.int, <<"8", "6", "4", "0", "0">>)

(* The wire value v does not have the lexical form of the type tag *)
Malformed(tag, v) ==
    CASE tag \in {"real", "date", "timestamp_ltz", "timestamp_ntz"} -> ~ParseFloat(v).ok
      [] tag = "time" -> ~ParseFloat(v).ok \/ OutsideDay(ParseFloat(v).val)
      [] tag = "binary" -> Len(v) % 2 # 0 \/ \E i \in 1..Len(v) : ~IsHex(v[i])
      [] tag = "boolean" -> v \notin {<<"t", "r", "u", "e">>, <<"f", "a", "l", "s", "e">>}
      [] tag = "fixed" -> ~ParseInt(v).ok /\ ~ParseFloat(v).ok
      [] OTHER -> FALSE

(* C23 as stated: to_cell of a present value that does not have the form of
   its column's type (text that is no number for real, date, time and the
   timestamps, text that is not hex or of odd length for binary, anything but
   "true" and "false" for boolean, a fixed value that is neither an integer
   nor a float, a time outside [0, 86400)) panics and returns no cell, while
   text and timestamp_tz columns never panic. *)
C23_MalformedPanics ==
    (rawValue.some /\ decoded.some /\ RawWire.some) =>
        /\ Malformed(RawTag, RawWire.val) => decoded.val = Panic
        /\ RawTag \in {"text", "timestamp_tz"} => decoded.val # Panic

====
